---- MODULE Spec2Model ----
(***************************************************************************)
(* The audio-to-text tool handler of src/src/tools/audio-to-text.ts: the   *)
(* sequence of remote calls and file writes of one invocation, the         *)
(* parameter bag it forwards to the inference client, and the loop that    *)
(* groups the returned segments into sentences.                            *)
(*                                                                         *)
(* Conventions.  A JavaScript value is a pair <<type, text>>, so that      *)
(* values of different types can be compared.  A text is a sequence of     *)
(* one-character strings.  Segment indices are 1-based: the code's         *)
(* segments[i] is segments[i + 1] here, and the loop variable i runs over  *)
(* 1..Len(segments).                                                       *)
(***************************************************************************)
EXTENDS Integers, Sequences, FiniteSets, TLC

VARIABLES
    pc,                 \* position of the handler
    args,               \* the parameter object the caller supplied
    input,              \* the parameter bag forwarded to replicate.run
    buckets,            \* data returned by listBuckets
    calls,              \* number of times each remote call was made
    status,             \* outcome of each remote call
    output,             \* what replicate.run returned
    files,              \* artifacts written to the audio directory
    result,             \* what the handler returned
    fault,              \* the error thrown inside the try block, if any
    i,                  \* loop index of the sentence loop
    currentSentence,    \* accumulator of the sentence loop
    sentenceStart,      \* start time of the sentence being accumulated
    sentenceTimestamps, \* sentences emitted so far
    curRun,             \* history: indices appended to currentSentence since its reset
    runs,               \* history: for each emitted sentence, the indices it was built from
    startReads          \* history: indices whose .start the loop has looked up

vars == <<pc, args, input, buckets, calls, status, output, files, result,
          fault, i, currentSentence, sentenceStart, sentenceTimestamps,
          curRun, runs, startReads>>

aggVars == <<i, currentSentence, sentenceStart, sentenceTimestamps,
             curRun, runs, startReads>>

(***************************************************************************)
(* Bounds                                                                  *)
(***************************************************************************)
MaxSegs == 3        \* longest segment sequence fed to the sentence loop
MaxTime == 1        \* segment start/end times range over 0..MaxTime
MaxSpecified == 1   \* how many optional parameters a caller specifies

(***************************************************************************)
(* Values and the tool's optional parameters                               *)
(***************************************************************************)
Undefined == <<"undefined", "">>
Str(s) == <<"string", s>>
Num(s) == <<"number", s>>
Bool(s) == <<"boolean", s>>

StringParams == {"language", "initial_prompt", "huggingface_access_token"}
NumberParams == {"language_detection_min_prob", "language_detection_max_tries",
                 "batch_size", "temperature", "vad_onset", "vad_offset",
                 "min_speakers", "max_speakers"}
BooleanParams == {"align_output", "diarization", "debug"}

\* The optional parameters of the schema that concern the inference call.
OptionalParams == StringParams \cup NumberParams \cup BooleanParams

ParamValues(p) ==
    IF p \in StringParams THEN {Str(""), Str("fr")}
    ELSE IF p \in NumberParams THEN {Num("0"), Num("2")}
    ELSE {Bool("true"), Bool("false")}

\* Parameter objects a caller may send: at most MaxSpecified keys given.
CallerArgs ==
    UNION { { [p \in OptionalParams |-> IF p \in S THEN f[p] ELSE Undefined] :
              f \in { g \in [S -> UNION {ParamValues(p) : p \in S}] :
                      \A p \in S : g[p] \in ParamValues(p) } } :
            S \in { T \in SUBSET OptionalParams : Cardinality(T) <= MaxSpecified } }

\* Defaults of the handler's destructuring parameter list.
HandlerDefault(p) ==
    CASE p = "language" -> Str("en")
      [] p = "batch_size" -> Num("64")
      [] p = "temperature" -> Num("0")
      [] p = "vad_onset" -> Num("0.5")
      [] p = "vad_offset" -> Num("0.363")
      [] p = "align_output" -> Bool("true")
      [] p = "diarization" -> Bool("true")
      [] p = "debug" -> Bool("false")
      [] OTHER -> Undefined

\* A destructuring default applies exactly when the property is undefined.
Destructure(a) ==
    [p \in OptionalParams |-> IF a[p] = Undefined THEN HandlerDefault(p) ELSE a[p]]

\* JavaScript truthiness of a value.
Truthy(v) == v \notin {Undefined, Str(""), Num("0"), Bool("false")}

\* Keys copied under `if (x)`; the others are copied under `if (x !== undefined)`.
TruthyGuarded == {"language", "initial_prompt", "language_detection_min_prob",
                  "language_detection_max_tries", "huggingface_access_token"}

ForwardedAll(p, v) == TRUE

Forwarded(p, v) == IF p \in TruthyGuarded THEN Truthy(v) ELSE v # Undefined

\* The object `input` as built from the destructured parameters.
BuildInput(a) ==
    [p \in {"audio_file"} \cup {q \in OptionalParams : Forwarded(q, a[q])} |->
        IF p = "audio_file" THEN Str("publicUrl") ELSE a[p]]

NoInput == [none |-> Undefined]

(***************************************************************************)
(* Texts                                                                   *)
(***************************************************************************)
WhiteSpace == {" ", "\n"}
Terminal == {".", "!", "?"}

RECURSIVE TrimLeft(_)
TrimLeft(t) ==
    IF Len(t) > 0 /\ t[1] \in WhiteSpace THEN TrimLeft(Tail(t)) ELSE t

RECURSIVE TrimRight(_)
TrimRight(t) ==
    IF Len(t) > 0 /\ t[Len(t)] \in WhiteSpace
    THEN TrimRight(SubSeq(t, 1, Len(t) - 1))
    ELSE t

TrimAll(t) == SelectSeq(t, LAMBDA c : c \notin WhiteSpace)

\* String.prototype.trim
Trim(t) == TrimRight(TrimLeft(t))

\* /[.!?][\s]*$/.test(t): some terminal mark is followed only by white space
\* up to the end of t.
RegexTest(t) ==
    \E p \in 1..Len(t) :
        /\ t[p] \in Terminal
        /\ \A q \in (p + 1)..Len(t) : t[q] \in WhiteSpace

EndsWithAnyMark(text) == \E p \in 1..Len(text) : text[p] \in Terminal

EndsWithPunctuation(text) == RegexTest(Trim(text))

(***************************************************************************)
(* Transcription results                                                   *)
(***************************************************************************)
Seg(s, e, t) == [start |-> s, end |-> e, text |-> t]

\* replicate.run returned null/undefined
NullOutput == [present |-> FALSE, hasSegments |-> FALSE, segments |-> <<>>]
\* replicate.run returned an object without a segments property
NoSegments == [present |-> TRUE, hasSegments |-> FALSE, segments |-> <<>>]
WithSegments(ss) == [present |-> TRUE, hasSegments |-> TRUE, segments |-> ss]

\* Results the inference call returns in the handler specification.
HandlerOutputs ==
    { NullOutput, NoSegments, WithSegments(<<>>),
      WithSegments(<<Seg(0, 1, <<"H", "i">>)>>),
      WithSegments(<<Seg(0, 1, <<"H", "i", ".">>),
                     Seg(1, 2, <<" ", "y", "o">>),
                     Seg(2, 3, <<" ", "u", "!">>)>>) }

\* Segment texts of the aggregation specification.
SegTexts ==
    { <<>>, <<" ">>, <<"a">>, <<" ", "a">>, <<"a", " ", "b">>, <<".", "a">>,
      <<"a", ".", " ">>, <<"a", "!">>, <<"a", "?", "\n">> }

\* Every text of SegTexts, with times increasing along the sequence.
TextRich ==
    UNION { { [k \in 1..n |-> Seg(2 * (k - 1), 2 * k - 1, txt[k])] :
              txt \in [1..n -> SegTexts] } : n \in 0..MaxSegs }

\* Every start and end time in 0..MaxTime (zero and negative lengths and
\* out-of-order segments included), with a text that ends a sentence or not.
TimeRich ==
    UNION { [1..n -> [start : 0..MaxTime, end : 0..MaxTime,
                      text : {<<"a">>, <<"a", ".">>}]] : n \in 0..MaxSegs }

AggOutputs == {NoSegments} \cup {WithSegments(ss) : ss \in TextRich \cup TimeRich}

(***************************************************************************)
(* Errors: a throw inside the try block lands in the catch clause          *)
(***************************************************************************)
NoResult == [kind |-> "none", message |-> ""]

CatchPropagate(e) ==
    /\ pc' = "done"
    /\ result' = [kind |-> "thrown", message |-> e]
    /\ UNCHANGED files

CatchRollback(e) ==
    /\ pc' = "done"
    /\ result' = [kind |-> "error", message |-> e]
    /\ files' = {}

\* catch (error) { return { content: [{ text: `Error transcribing audio: ...` }] } }
Catch(e) ==
    /\ pc' = "done"
    /\ result' = [kind |-> "error", message |-> e]
    /\ UNCHANGED files

\* throw inside try { ... }
Throw(e) ==
    /\ fault' = e
    /\ Catch(e)

(***************************************************************************)
(* The handler, up to the inference call                                   *)
(***************************************************************************)
RemoteCalls == {"listBuckets", "createBucket", "upload", "run"}

BucketListings ==
    {[null |-> TRUE, names |-> {}]} \cup
    {[null |-> FALSE, names |-> ns] : ns \in SUBSET {"audio", "other"}}

\* buckets?.some((bucket) => bucket.name === "audio"), as tested by `!`
AudioBucketExists(b) == ~b.null /\ "audio" \in b.names

Called(c) == calls' = [calls EXCEPT ![c] = @ + 1]
Outcome(c, o) == status' = [status EXCEPT ![c] = o]

ListBuckets ==
    /\ pc = "listBuckets"
    /\ Called("listBuckets")
    /\ \/ /\ Outcome("listBuckets", "failed")
          /\ Throw("Failed to list buckets")
          /\ UNCHANGED buckets
       \/ /\ Outcome("listBuckets", "ok")
          /\ \E b \in BucketListings :
                /\ buckets' = b
                /\ pc' = IF AudioBucketExists(b) THEN "readFile" ELSE "createBucket"
          /\ UNCHANGED <<files, result, fault>>
    /\ UNCHANGED <<args, input, output, aggVars>>

CreateBucketIgnoreError ==
    /\ pc = "createBucket"
    /\ Called("createBucket")
    /\ \/ Outcome("createBucket", "failed")
       \/ Outcome("createBucket", "ok")
    /\ pc' = "readFile"
    /\ UNCHANGED <<files, result, fault>>
    /\ UNCHANGED <<args, input, buckets, output, aggVars>>

CreateBucket ==
    /\ pc = "createBucket"
    /\ Called("createBucket")
    /\ \/ /\ Outcome("createBucket", "failed")
          /\ Throw("Failed to create audio bucket")
       \/ /\ Outcome("createBucket", "ok")
          /\ pc' = "readFile"
          /\ UNCHANGED <<files, result, fault>>
    /\ UNCHANGED <<args, input, buckets, output, aggVars>>

\* readFileSync(audio_file)
ReadAudioFile ==
    /\ pc = "readFile"
    /\ \/ Throw("readFileSync")
       \/ /\ pc' = "upload"
          /\ UNCHANGED <<files, result, fault>>
    /\ UNCHANGED <<args, input, buckets, calls, status, output, aggVars>>

UploadRetry ==
    /\ pc = "upload"
    /\ calls["upload"] < 2
    /\ Called("upload")
    /\ \/ /\ Outcome("upload", "failed")
          /\ pc' = "upload"
          /\ UNCHANGED <<files, result, fault>>
       \/ /\ Outcome("upload", "ok")
          /\ pc' = "run"
          /\ UNCHANGED <<files, result, fault>>
    /\ UNCHANGED <<args, input, buckets, output, aggVars>>

Upload ==
    /\ pc = "upload"
    /\ Called("upload")
    /\ \/ /\ Outcome("upload", "failed")
          /\ Throw("Failed to upload file to Supabase")
       \/ /\ Outcome("upload", "ok")
          /\ pc' = "run"
          /\ UNCHANGED <<files, result, fault>>
    /\ UNCHANGED <<args, input, buckets, output, aggVars>>

\* Builds `input` and awaits replicate.run; a falsy result is an error.
RunInference ==
    /\ pc = "run"
    /\ input' = BuildInput(Destructure(args))
    /\ Called("run")
    /\ \/ /\ Outcome("run", "failed")
          /\ Throw("replicate.run")
          /\ UNCHANGED output
       \/ /\ Outcome("run", "ok")
          /\ \E o \in HandlerOutputs :
                /\ output' = o
                /\ IF ~o.present
                   THEN Throw("No output received from Replicate API")
                   ELSE /\ pc' = "mkdir"
                        /\ UNCHANGED <<files, result, fault>>
    /\ UNCHANGED <<args, buckets, aggVars>>

(***************************************************************************)
(* Artifacts                                                               *)
(***************************************************************************)
\* mkdirSync(audioDir, { recursive: true })
MakeAudioDir ==
    /\ pc = "mkdir"
    /\ \/ Throw("mkdirSync")
       \/ /\ pc' = "writeTranscript"
          /\ UNCHANGED <<files, result, fault>>
    /\ UNCHANGED <<args, input, buckets, calls, status, output, aggVars>>

\* writeFileSync(transcriptPath, ...)
WriteTranscript ==
    /\ pc = "writeTranscript"
    /\ \/ Throw("writeFileSync transcript")
       \/ /\ files' = files \cup {"transcript"}
          /\ pc' = "writeText"
          /\ UNCHANGED <<result, fault>>
    /\ UNCHANGED <<args, input, buckets, calls, status, output, aggVars>>

\* writeFileSync(textPath, textContent)
WriteText ==
    /\ pc = "writeText"
    /\ \/ Throw("writeFileSync text")
       \/ /\ files' = files \cup {"text"}
          /\ pc' = "aggBegin"
          /\ UNCHANGED <<result, fault>>
    /\ UNCHANGED <<args, input, buckets, calls, status, output, aggVars>>

(***************************************************************************)
(* The sentence loop                                                       *)
(***************************************************************************)
\* if (output.segments && output.segments.length > 0)
HasSegments(o) == o.hasSegments /\ Len(o.segments) > 0

\* const sentenceTimestamps = []; and, under the guard, the loop's initial state
AggregateBegin ==
    /\ pc = "aggBegin"
    /\ sentenceTimestamps' = <<>>
    /\ runs' = <<>>
    /\ IF HasSegments(output)
       THEN /\ currentSentence' = <<>>
            /\ curRun' = <<>>
            /\ sentenceStart' = output.segments[1].start
            /\ startReads' = startReads \cup {1}
            /\ i' = 1
            /\ pc' = "aggLoop"
       ELSE /\ pc' = "writeSentences"
            /\ UNCHANGED <<currentSentence, curRun, sentenceStart, startReads, i>>
    /\ UNCHANGED <<args, input, buckets, calls, status, output, files, result, fault>>

ClosesSentenceNoFlush(segs, idx) == EndsWithPunctuation(segs[idx].text)

\* if (endsWithPunctuation || isLastSegment)
ClosesSentence(segs, idx) ==
    EndsWithPunctuation(segs[idx].text) \/ idx = Len(segs)

NewSentenceFromSegmentStart(acc, start, segment) ==
    [sentence |-> Trim(acc),
     start_time |-> segment.start,
     end_time |-> segment.end,
     duration |-> segment.end - segment.start]

\* the object pushed onto sentenceTimestamps
NewSentence(acc, start, segment) ==
    [sentence |-> Trim(acc),
     start_time |-> start,
     end_time |-> segment.end,
     duration |-> segment.end - start]

NeverResets(segs, idx) == FALSE

\* if (i < output.segments.length - 1)
NeedsReset(segs, idx) == idx < Len(segs)

\* One iteration of for (let i = 0; i < output.segments.length; i++)
AggregateStep ==
    /\ pc = "aggLoop"
    /\ LET segs == output.segments
           segment == segs[i]
           acc == currentSentence \o segment.text
           run == Append(curRun, i)
       IN /\ IF ClosesSentence(segs, i)
             THEN /\ sentenceTimestamps' =
                        Append(sentenceTimestamps, NewSentence(acc, sentenceStart, segment))
                  /\ runs' = Append(runs, run)
                  /\ IF NeedsReset(segs, i)
                     THEN /\ currentSentence' = <<>>
                          /\ curRun' = <<>>
                          /\ sentenceStart' = segs[i + 1].start
                          /\ startReads' = startReads \cup {i + 1}
                     ELSE /\ currentSentence' = acc
                          /\ curRun' = run
                          /\ UNCHANGED <<sentenceStart, startReads>>
             ELSE /\ currentSentence' = acc
                  /\ curRun' = run
                  /\ UNCHANGED <<sentenceTimestamps, runs, sentenceStart, startReads>>
          /\ i' = i + 1
          /\ pc' = IF i + 1 <= Len(segs) THEN "aggLoop" ELSE "writeSentences"
    /\ UNCHANGED <<args, input, buckets, calls, status, output, files, result, fault>>

\* writeFileSync(sentencesPath, ...) and the success response
WriteSentences ==
    /\ pc = "writeSentences"
    /\ \/ Throw("writeFileSync sentences")
       \/ /\ files' = files \cup {"sentences"}
          /\ result' = [kind |-> "success", message |-> "Audio transcription completed successfully!"]
          /\ pc' = "done"
          /\ UNCHANGED fault
    /\ UNCHANGED <<args, input, buckets, calls, status, output, aggVars>>

(***************************************************************************)
(* Specifications                                                          *)
(***************************************************************************)
AggInit ==
    /\ i = 0
    /\ currentSentence = <<>>
    /\ sentenceStart = 0
    /\ sentenceTimestamps = <<>>
    /\ curRun = <<>>
    /\ runs = <<>>
    /\ startReads = {}

\* One invocation of the tool, from the call of the handler.
Init ==
    /\ pc = "listBuckets"
    /\ args \in CallerArgs
    /\ input = NoInput
    /\ buckets = [null |-> TRUE, names |-> {}]
    /\ calls = [c \in RemoteCalls |-> 0]
    /\ status = [c \in RemoteCalls |-> "untried"]
    /\ output = NullOutput
    /\ files = {}
    /\ result = NoResult
    /\ fault = "none"
    /\ AggInit

Next ==
    \/ ListBuckets
    \/ CreateBucket
    \/ ReadAudioFile
    \/ Upload
    \/ RunInference
    \/ MakeAudioDir
    \/ WriteTranscript
    \/ WriteText
    \/ AggregateBegin
    \/ AggregateStep
    \/ WriteSentences

Spec == Init /\ [][Next]_vars

\* The invocation at the point where the sentence loop starts, for every
\* transcription result of AggOutputs: the bucket was listed, the file
\* uploaded, the inference made and the first two artifacts written.
InitAgg ==
    /\ pc = "aggBegin"
    /\ args = [p \in OptionalParams |-> Undefined]
    /\ input = BuildInput(Destructure(args))
    /\ buckets = [null |-> FALSE, names |-> {"audio"}]
    /\ calls = [c \in RemoteCalls |-> IF c = "createBucket" THEN 0 ELSE 1]
    /\ status = [c \in RemoteCalls |-> IF c = "createBucket" THEN "untried" ELSE "ok"]
    /\ output \in AggOutputs
    /\ files = {"transcript", "text"}
    /\ result = NoResult
    /\ fault = "none"
    /\ AggInit

NextAgg ==
    \/ AggregateBegin
    \/ AggregateStep
    \/ WriteSentences

SpecAgg == InitAgg /\ [][NextAgg]_vars

(***************************************************************************)
(* Vocabulary of the properties                                            *)
(***************************************************************************)
Segs == output.segments
NumSegs == IF output.hasSegments THEN Len(Segs) ELSE 0

\* The sentence loop has run to its end (or was skipped on empty input).
AggFinished ==
    \/ pc = "writeSentences"
    \/ pc = "done" /\ fault \in {"none", "writeFileSync sentences"}

\* Number of segments the loop has gone through.
Processed ==
    IF pc = "aggLoop" THEN i - 1 ELSE IF AggFinished THEN NumSegs ELSE 0

\* A text without its leading and trailing white space.
TrimmedText(t) ==
    LET inked == {p \in 1..Len(t) : t[p] \notin {" ", "\n"}}
    IN IF inked = {} THEN <<>>
       ELSE SubSeq(t, CHOOSE p \in inked : \A q \in inked : p <= q,
                      CHOOSE p \in inked : \A q \in inked : p >= q)

\* The trimmed text ends with '.', '!' or '?'.
EndsInMark(t) ==
    LET tt == TrimmedText(t)
    IN Len(tt) > 0 /\ tt[Len(tt)] \in {".", "!", "?"}

\* Indices at which a sentence was closed.
ClosedAt == {runs[k][Len(runs[k])] : k \in 1..Len(runs)}

RECURSIVE Flatten(_)
Flatten(ss) == IF ss = <<>> THEN <<>> ELSE Head(ss) \o Flatten(Tail(ss))

\* Concatenation of the texts of the segments with the given indices.
RunText(run) == Flatten([m \in 1..Len(run) |-> Segs[run[m]].text])

AllWhite(t) == \A p \in 1..Len(t) : t[p] \in WhiteSpace
WithoutWhite(t) == SelectSeq(t, LAMBDA c : c \notin WhiteSpace)

\* C1: the loop closes a sentence at segment j exactly when the trimmed text
\* of segment j ends with '.', '!' or '?' or j is the last segment; so the
\* number of sentences is the number of non-last segments ending in such a
\* mark, plus one when there is at least one segment.
C1_ClosesAtTerminalOrLast ==
    /\ Len(runs) = Len(sentenceTimestamps)
    /\ \A j \in 1..Processed :
          (j \in ClosedAt) <=> (EndsInMark(Segs[j].text) \/ j = NumSegs)
    /\ AggFinished =>
          Len(sentenceTimestamps) =
              Cardinality({j \in 1..(NumSegs - 1) : EndsInMark(Segs[j].text)})
              + (IF NumSegs > 0 THEN 1 ELSE 0)

\* Three segments: the first ends in a mark followed by white space and
\* closes a sentence, the second holds a mark that is not at its end and
\* closes none, the third is flushed.
C1_Witness ==
    /\ AggFinished
    /\ NumSegs = 3
    /\ Segs[1].text = <<"a", ".", " ">>
    /\ Segs[2].text = <<".", "a">>
    /\ Segs[3].text = <<"a">>
    /\ ClosedAt = {1, 3}
    /\ Len(sentenceTimestamps) = 2

\* C2: the sentences partition the segments: each sentence is built from a
\* non-empty run of consecutive segments, the runs follow one another in
\* input order, and every segment gone through lies in exactly one run.
C2_SentencesPartitionSegments ==
    /\ Len(runs) = Len(sentenceTimestamps)
    /\ \A k \in 1..Len(runs) :
          /\ runs[k] # <<>>
          /\ \A m \in 1..(Len(runs[k]) - 1) : runs[k][m + 1] = runs[k][m] + 1
          /\ sentenceTimestamps[k].sentence = TrimmedText(RunText(runs[k]))
    /\ Flatten(runs) \o (IF pc = "aggLoop" THEN curRun ELSE <<>>)
          = [j \in 1..Processed |-> j]

C2_Witness ==
    /\ AggFinished
    /\ NumSegs = 3
    /\ runs = <<<<1>>, <<2, 3>>>>

\* C3: every sentence starts at the start of the first segment of its run,
\* ends at the end of the last one, and lasts end_time - start_time, whatever
\* the sign; the first sentence starts with the first segment and the last
\* sentence ends with the last segment.
C3_SentenceTimes ==
    /\ Len(runs) = Len(sentenceTimestamps)
    /\ \A k \in 1..Len(sentenceTimestamps) :
          LET s == sentenceTimestamps[k]
          IN /\ s.start_time = Segs[runs[k][1]].start
             /\ s.end_time = Segs[runs[k][Len(runs[k])]].end
             /\ s.duration = s.end_time - s.start_time
    /\ (AggFinished /\ NumSegs > 0) =>
          /\ sentenceTimestamps # <<>>
          /\ sentenceTimestamps[1].start_time = Segs[1].start
          /\ sentenceTimestamps[Len(sentenceTimestamps)].end_time = Segs[NumSegs].end

\* A second sentence made of two segments whose times give a negative duration.
C3_Witness ==
    /\ AggFinished
    /\ Len(sentenceTimestamps) = 2
    /\ runs[2] = <<2, 3>>
    /\ Segs[2].start # Segs[3].start
    /\ Segs[2].end # Segs[3].end
    /\ sentenceTimestamps[2].duration < 0

\* C4: the output is empty exactly when there are no segments (an empty or
\* absent list), and then no start time is looked up; with n > 0 segments
\* there are between 1 and n sentences.  Every start-time lookup is at an
\* index of the list.
C4_EmptyIffEmpty ==
    /\ startReads \subseteq 1..NumSegs
    /\ Len(sentenceTimestamps) <= Processed
    /\ AggFinished =>
          /\ (sentenceTimestamps = <<>>) <=> (NumSegs = 0)
          /\ NumSegs > 0 =>
                1 <= Len(sentenceTimestamps) /\ Len(sentenceTimestamps) <= NumSegs

\* The empty list went through the loop: no sentence, no lookup.
C4_Witness ==
    /\ AggFinished
    /\ output.hasSegments
    /\ Segs = <<>>
    /\ sentenceTimestamps = <<>>
    /\ startReads = {}

\* C5: the sentence texts, concatenated, are the segment texts, concatenated,
\* up to white space; each sentence text is the concatenation of the texts of
\* its run with leading and trailing white space removed and nothing else.
C5_TextPreserved ==
    /\ Len(runs) = Len(sentenceTimestamps)
    /\ \A k \in 1..Len(sentenceTimestamps) :
          LET raw == RunText(runs[k])
              s == sentenceTimestamps[k].sentence
          IN /\ \E p \in 0..Len(raw) :
                   /\ p + Len(s) <= Len(raw)
                   /\ SubSeq(raw, p + 1, p + Len(s)) = s
                   /\ AllWhite(SubSeq(raw, 1, p))
                   /\ AllWhite(SubSeq(raw, p + Len(s) + 1, Len(raw)))
             /\ s # <<>> => s[1] \notin WhiteSpace /\ s[Len(s)] \notin WhiteSpace
    /\ AggFinished =>
          WithoutWhite(Flatten([k \in 1..Len(sentenceTimestamps) |->
                                    sentenceTimestamps[k].sentence]))
          = WithoutWhite(Flatten([j \in 1..NumSegs |-> Segs[j].text]))

\* A sentence of two segments that keeps its interior white space and loses
\* the white space at both ends.
C5_Witness ==
    /\ AggFinished
    /\ \E k \in 1..Len(sentenceTimestamps) :
          /\ runs[k] = <<1, 2>>
          /\ Segs[1].text = <<" ", "a">>
          /\ Segs[2].text = <<"a", "?", "\n">>
          /\ sentenceTimestamps[k].sentence = <<"a", "a", "?">>
    /\ \E k \in 1..Len(sentenceTimestamps) :
          sentenceTimestamps[k].sentence = <<"a", " ", "b">>

Artifacts == {"transcript", "text", "sentences"}

\* C6: whatever fails inside an invocation (a remote call, reading the audio
\* file, an absent inference result, creating the directory, writing an
\* artifact), the invocation ends with the error response carrying that
\* failure; nothing is thrown to the host, an invocation that has not ended
\* can always take its next step, and an ended one returned the success
\* summary or the error response.
C6_FailuresBecomeErrorResponses ==
    /\ result.kind \in {"none", "success", "error"}
    /\ (pc = "done") <=> (result.kind # "none")
    /\ fault # "none" => pc = "done" /\ result = [kind |-> "error", message |-> fault]
    /\ (\E c \in RemoteCalls : status[c] = "failed") => result.kind = "error"
    /\ (status["run"] = "ok" /\ ~output.present) => result.kind = "error"
    /\ result.kind = "success" => fault = "none" /\ files = Artifacts
    /\ result.kind = "error" => fault # "none"
    /\ pc # "done" => ENABLED Next

\* The upload failed and the handler returned the error response.
C6_Witness ==
    /\ pc = "done"
    /\ status["upload"] = "failed"
    /\ result = [kind |-> "error", message |-> "Failed to upload file to Supabase"]

\* Parameters for which the handler's parameter list declares a default.
HandlerDefaulted == {"language", "batch_size", "temperature", "vad_onset",
                     "vad_offset", "align_output", "diarization", "debug"}

\* C7, as stated: no forwarded key is undefined, and every optional parameter
\* the caller does not specify is absent from the forwarded input.
C7_UnspecifiedKeysAbsent ==
    calls["run"] >= 1 =>
        /\ \A p \in DOMAIN input : input[p] # Undefined
        /\ \A p \in OptionalParams : args[p] = Undefined => p \notin DOMAIN input

\* C7, amended: no forwarded key is undefined; an optional parameter the
\* caller does not specify is absent from the forwarded input when the
\* handler declares no default for it, and is forwarded with the handler's
\* default when it declares one.
C7_UnspecifiedKeysAbsentOrDefaulted ==
    calls["run"] >= 1 =>
        /\ \A p \in DOMAIN input : input[p] # Undefined
        /\ \A p \in OptionalParams :
              args[p] = Undefined =>
                  IF p \in HandlerDefaulted
                  THEN p \in DOMAIN input /\ input[p] = HandlerDefault(p)
                  ELSE p \notin DOMAIN input

\* The caller gave only max_speakers: min_speakers is not forwarded, and
\* batch_size is, with the handler's 64.
C7_Witness ==
    /\ calls["run"] >= 1
    /\ args["max_speakers"] = Num("2")
    /\ args["min_speakers"] = Undefined
    /\ "min_speakers" \notin DOMAIN input
    /\ args["batch_size"] = Undefined
    /\ input["batch_size"] = Num("64")

\* C8: no remote call is made twice; once a call has failed nothing more is
\* attempted; and a successful invocation made each call on its path once:
\* listBuckets, upload and the inference, and createBucket when no "audio"
\* bucket was listed.
C8_NoRetries ==
    /\ \A c \in RemoteCalls : calls[c] <= 1
    /\ \A c \in RemoteCalls : (calls[c] = 0) <=> (status[c] = "untried")
    /\ \A c \in RemoteCalls : status[c] = "failed" => pc = "done"
    /\ result.kind = "success" =>
          /\ calls["listBuckets"] = 1
          /\ calls["upload"] = 1
          /\ calls["run"] = 1
          /\ calls["createBucket"] = IF "audio" \in buckets.names THEN 0 ELSE 1

\* The upload was tried once, failed, and the invocation is over.
C8_Witness ==
    /\ pc = "done"
    /\ status["upload"] = "failed"
    /\ calls["upload"] = 1
    /\ calls["run"] = 0

\* C9: a written artifact is never removed: when a write fails the artifacts
\* written before it are still there while the error response is returned.
C9_NoRollback ==
    /\ [](/\ fault = "writeFileSync transcript" => files = {}
          /\ fault = "writeFileSync text" => files = {"transcript"}
          /\ fault = "writeFileSync sentences" => files = {"transcript", "text"}
          /\ files # {} => "transcript" \in files
          /\ "sentences" \in files => result.kind = "success")
    /\ [][files \subseteq files']_vars

\* The third write failed: two of the three artifacts are on disk and the
\* error response was returned.
C9_Witness ==
    /\ pc = "done"
    /\ result.kind = "error"
    /\ fault = "writeFileSync sentences"
    /\ files = {"transcript", "text"}

\* C10: createBucket is called only when the listing succeeded and listed no
\* "audio" bucket; the upload only when the bucket was listed or created
\* without error; the inference only when the upload succeeded; and an
\* artifact is written only when the inference returned a result (without
\* one, the error response is returned and no file is written).
C10_StepsGated ==
    /\ calls["createBucket"] >= 1 =>
          status["listBuckets"] = "ok" /\ "audio" \notin buckets.names
    /\ calls["upload"] >= 1 =>
          /\ status["listBuckets"] = "ok"
          /\ "audio" \in buckets.names \/ status["createBucket"] = "ok"
    /\ calls["run"] >= 1 => status["upload"] = "ok"
    /\ files # {} => status["run"] = "ok" /\ output.present
    /\ (status["run"] = "ok" /\ ~output.present) =>
          pc = "done" /\ result.kind = "error" /\ files = {}

\* The bucket was created, the file uploaded, and the inference returned
\* nothing: the error response, and no file.
C10_Witness ==
    /\ pc = "done"
    /\ status["createBucket"] = "ok"
    /\ status["upload"] = "ok"
    /\ status["run"] = "ok"
    /\ ~output.present
    /\ result = [kind |-> "error", message |-> "No output received from Replicate API"]
    /\ files = {}

====
